---- MODULE Spec2Model ----
(***************************************************************************)
(* Gallery cache of koishi-plugin-RandomPic: the sampler (pickRandom), the *)
(* directory scanner (collectImages, buildCommandCache) and the plugin's   *)
(* apply() with its refreshes, watchers, debounce timers, command handler  *)
(* and dispose hook.  The repository holds two revisions of the plugin,    *)
(* src/src/index.ts and src/unnamed/part_000; where they differ the model  *)
(* carries both, selected by the variable `variant`.                       *)
(***************************************************************************)
EXTENDS Integers, Sequences, FiniteSets, TLC

VARIABLES
    pk,       \* the running pickRandom call: items, count, chosen, used, pc
    sc,       \* the running buildCommandCache call over a directory tree
    smp,      \* one run of the command handler's count arithmetic and sampling
    variant,        \* which revision runs: "A" or "B"
    cfg,            \* config.commands: command name -> CommandConfig
    fs,             \* the directory tree on disk
    commandStates,  \* the Map: command name -> {files, watchers}
    refreshes,      \* the refreshCommand calls in flight
    nextId,         \* the number of the next refreshCommand call
    reg,            \* revision A: each command's registerWatchers call
    live,           \* the watch handles that are open
    timers,         \* the debounce timers that are pending
    ready,          \* the ready hook: pending, running (B), done
    disposed,       \* the dispose hook: "no", "done", "threw"
    handler,        \* the command handler that is running, if any
    budget,         \* what the environment may still do
    hist            \* history of the run, for the properties

pickVars == <<pk>>
scanVars == <<sc>>
sampleVars == <<smp>>
mainVars == <<variant, cfg, fs, commandStates, refreshes, nextId, reg, live, timers,
              ready, disposed, handler, budget, hist>>
vars == <<pk, sc, smp, variant, cfg, fs, commandStates, refreshes, nextId, reg, live,
          timers, ready, disposed, handler, budget, hist>>

(***************************************************************************)
(* Numbers.  A JavaScript number is modelled in fixed point: the model     *)
(* value v stands for v / Scale, so that fractional counts (2.5) exist.    *)
(***************************************************************************)
Scale == 2

Num(n) == n * Scale

IsWhole(v) == v % Scale = 0

Min(a, b) == IF a <= b THEN a ELSE b

Range(s) == {s[i] : i \in 1..Len(s)}

IsInjective(s) == \A i, j \in 1..Len(s) : s[i] = s[j] => i = j

(***************************************************************************)
(* Paths and names.  A path is the sequence of its components, "/" first   *)
(* when absolute.  A name is a string; Chars gives its spelling, which is  *)
(* what path.extname and toLowerCase work on.                              *)
(***************************************************************************)
Chars(name) ==
    CASE name = "a.png"     -> <<"a", ".", "p", "n", "g">>
      [] name = "X.JPG"     -> <<"X", ".", "J", "P", "G">>
      [] name = "b.txt"     -> <<"b", ".", "t", "x", "t">>
      [] name = "c.jpg"     -> <<"c", ".", "j", "p", "g">>
      [] name = "d.Jpeg"    -> <<"d", ".", "J", "p", "e", "g">>
      [] name = "e.gif"     -> <<"e", ".", "g", "i", "f">>
      [] name = "f.bmp"     -> <<"f", ".", "b", "m", "p">>
      [] name = "h.webp"    -> <<"h", ".", "w", "e", "b", "p">>
      [] name = "i.avif"    -> <<"i", ".", "a", "v", "i", "f">>
      [] name = ".png"      -> <<".", "p", "n", "g">>
      [] name = "png"       -> <<"p", "n", "g">>
      [] name = "k.png.txt" -> <<"k", ".", "p", "n", "g", ".", "t", "x", "t">>
      [] name = "m.txt.png" -> <<"m", ".", "t", "x", "t", ".", "p", "n", "g">>
      [] name = "n.pn"      -> <<"n", ".", "p", "n">>
      [] name = "cats"      -> <<"c", "a", "t", "s">>
      [] name = "dogs"      -> <<"d", "o", "g", "s">>
      [] name = "more"      -> <<"m", "o", "r", "e">>
      [] name = "deep"      -> <<"d", "e", "e", "p">>
      [] name = "loop"      -> <<"l", "o", "o", "p">>
      [] OTHER              -> <<>>

\* String.prototype.toLowerCase, one character
LowerChar(c) ==
    CASE c = "X" -> "x" [] c = "J" -> "j" [] c = "P" -> "p" [] c = "G" -> "g"
      [] OTHER -> c

toLowerCase(cs) == [i \in 1..Len(cs) |-> LowerChar(cs[i])]

\* path.extname: from the last "." to the end; "" when there is none or when it
\* is the first character of the name
extname(name) ==
    LET cs == Chars(name)
        dots == {i \in 1..Len(cs) : cs[i] = "."}
        last == CHOOSE i \in dots : \A j \in dots : j <= i
    IN IF dots = {} THEN <<>>
       ELSE IF last = 1 THEN <<>>
       ELSE SubSeq(cs, last, Len(cs))

IMAGE_EXTENSIONS ==
    { <<".", "j", "p", "g">>,
      <<".", "j", "p", "e", "g">>,
      <<".", "p", "n", "g">>,
      <<".", "g", "i", "f">>,
      <<".", "b", "m", "p">>,
      <<".", "w", "e", "b", "p">>,
      <<".", "a", "v", "i", "f">> }

\* an extension test that compares without lower-casing
HasImageExtensionCaseSensitive(name) == extname(name) \in IMAGE_EXTENSIONS

\* IMAGE_EXTENSIONS.has(path.extname(entry.name).toLowerCase())
HasImageExtension(name) == toLowerCase(extname(name)) \in IMAGE_EXTENSIONS

RECURSIVE Normalize(_)
\* path.normalize on components: "." segments dropped
Normalize(p) ==
    IF p = <<>> THEN <<>>
    ELSE IF p[1] = "." THEN Normalize(Tail(p))
    ELSE <<p[1]>> \o Normalize(Tail(p))

\* path.join(dir, entry.name)
join(dir, name) == Normalize(Append(dir, name))

isAbsolute(location) == location # <<>> /\ location[1] = "/"

\* path.isAbsolute(location) ? location : path.resolve(root, location)
resolveGalleryPath(root, location) ==
    IF isAbsolute(location) THEN location ELSE Normalize(root \o location)

Prefix(p, n) == SubSeq(p, 1, n)

IsUnder(p, d) == Len(p) > Len(d) /\ Prefix(p, Len(d)) = d

\* "A" is src/src/index.ts, "B" is src/unnamed/part_000
Variants == {"A", "B"}

\* gallery locations as configured: relative to the root, or absolute
LocCats == <<"cats">>
LocMore == <<"cats", "more">>
LocDogs == <<"dogs">>
LocCatsAbs == <<"/", "g", ".", "cats">>

RootDir == <<"/", "g">>
Cats == <<"/", "g", "cats">>
Dogs == <<"/", "g", "dogs">>
More == <<"/", "g", "cats", "more">>
Deep == <<"/", "g", "cats", "more", "deep">>

\* directory order of the names, as readdir lists them
NameOrder ==
    << "a.png", "X.JPG", "b.txt", "c.jpg", "d.Jpeg", "e.gif", "f.bmp", "h.webp",
       "i.avif", ".png", "png", "k.png.txt", "m.txt.png", "n.pn",
       "cats", "dogs", "more", "deep", "loop" >>

Names == Range(NameOrder)

\* every path a tree of the model may hold
AllPaths ==
    {<<"/">>, RootDir, Cats, Dogs, More, Deep}
      \cup {Append(d, n) : d \in {Cats, More, Deep, Dogs}, n \in Names}

Kinds == {"none", "file", "dir", "link", "other"}

\* what the operating system sees at p: "." components do not matter
Real(p) == Normalize(p)

KindAt(tree, p) ==
    IF \E k \in Kinds : <<Real(p), k>> \in tree.nodes
    THEN CHOOSE k \in Kinds : <<Real(p), k>> \in tree.nodes
    ELSE "none"

\* fsp.readdir(dir) succeeds
CanRead(tree, dir) == KindAt(tree, dir) = "dir" /\ Real(dir) \notin tree.unreadable

\* the entries readdir(dir, {withFileTypes: true}) lists
Entries(tree, dir) ==
    LET d == Real(dir)
        here == {x[1][Len(x[1])] : x \in {y \in tree.nodes : Len(y[1]) = Len(d) + 1
                                                           /\ SubSeq(y[1], 1, Len(d)) = d}}
    IN SelectSeq(NameOrder, LAMBDA n : n \in here)

\* Dirent.isDirectory(): the entry's own type, a symlink is not a directory
DirentIsDirectory(tree, full) == KindAt(tree, full) = "dir"

\* Dirent.isFile()
DirentIsFile(tree, full) == KindAt(tree, full) = "file"

\* Set.prototype.add on an insertion-ordered set
SetAdd(s, x) == IF x \in Range(s) THEN s ELSE Append(s, x)

RECURSIVE SetAddAll(_, _)
SetAddAll(s, xs) == IF xs = <<>> THEN s ELSE SetAddAll(SetAdd(s, Head(xs)), Tail(xs))

(***************************************************************************)
(* ensureDirectory: mkdir(dir, {recursive: true}).  Every missing          *)
(* component is created; a component that exists and is no directory makes *)
(* the call throw.                                                         *)
(***************************************************************************)
MkdirOk(tree, dir) ==
    LET p == Real(dir)
    IN /\ p \in AllPaths
       /\ \A n \in 1..Len(p) : KindAt(tree, Prefix(p, n)) \in {"dir", "none"}

ensureDirectory(tree, dir) ==
    LET p == Real(dir)
    IN IF MkdirOk(tree, dir)
       THEN [ok |-> TRUE,
             fs |-> [tree EXCEPT !.nodes = @ \cup {<<Prefix(p, n), "dir">> : n \in 1..Len(p)}]]
       ELSE [ok |-> FALSE, fs |-> tree]

(***************************************************************************)
(* collectImages, src/src/index.ts: the files as an array                  *)
(***************************************************************************)
RECURSIVE collectImages_A(_, _, _)
collectImages_A(tree, dir, recursive) ==
    IF ~CanRead(tree, dir) THEN <<>>
    ELSE
      LET entries == Entries(tree, dir)
          RECURSIVE loop(_, _)
          loop(i, files) ==
            IF i > Len(entries) THEN files
            ELSE
              LET full == join(dir, entries[i])
              IN IF DirentIsDirectory(tree, full)
                 THEN loop(i + 1, IF recursive
                                  THEN files \o collectImages_A(tree, full, recursive)
                                  ELSE files)
                 ELSE IF ~DirentIsFile(tree, full) THEN loop(i + 1, files)
                 ELSE IF HasImageExtension(entries[i]) THEN loop(i + 1, Append(files, full))
                 ELSE loop(i + 1, files)
      IN loop(1, <<>>)

(***************************************************************************)
(* collectImages, src/unnamed/part_000: files and visited directories as   *)
(* sets, with the `seen` set shared by the whole walk                      *)
(***************************************************************************)
RECURSIVE collectImages_B(_, _, _, _)
collectImages_B(tree, dir, recursive, seen) ==
    IF ~CanRead(tree, dir)
    THEN [files |-> <<>>, directories |-> <<dir>>, seen |-> seen]
    ELSE
      LET entries == Entries(tree, dir)
          RECURSIVE loop(_, _)
          loop(i, r) ==
            IF i > Len(entries) THEN r
            ELSE
              LET full == join(dir, entries[i])
              IN IF DirentIsDirectory(tree, full)
                 THEN IF recursive /\ full \notin r.seen
                      THEN LET nested == collectImages_B(tree, full, recursive, r.seen \cup {full})
                           IN loop(i + 1, [files |-> SetAddAll(r.files, nested.files),
                                           directories |-> SetAddAll(r.directories, nested.directories),
                                           seen |-> nested.seen])
                      ELSE loop(i + 1, r)
                 ELSE IF ~DirentIsFile(tree, full) THEN loop(i + 1, r)
                 ELSE IF HasImageExtension(entries[i])
                      THEN loop(i + 1, [r EXCEPT !.files = SetAdd(@, full)])
                 ELSE loop(i + 1, r)
      IN loop(1, [files |-> <<>>, directories |-> <<dir>>, seen |-> seen])

\* a scan that ignores the flag
RecursiveIgnored(config) == TRUE

\* config.recursive ?? true
RecursiveOf(config) == IF config.recursive = "unset" THEN TRUE ELSE config.recursive = "true"

\* a union of the scans that keeps every path found, repeated or not
UnionKeepingRepeats(s, xs) == s \o xs

\* for (const image of images) fileSet.add(image)
UnionInto(s, xs) == SetAddAll(s, xs)

(***************************************************************************)
(* One turn of buildCommandCache's loop, for the location at index b.i:    *)
(* resolve, ensureDirectory, collectImages, union.  b is the call's frame: *)
(* [i, fileSet, dirSet, last, pc]; the result is the frame and the tree.   *)
(***************************************************************************)
BuildTurn(rev, tree, config, b) ==
    LET resolved == resolveGalleryPath(RootDir, config.paths[b.i])
        made == ensureDirectory(tree, resolved)
        rec == RecursiveOf(config)
        scanA == collectImages_A(made.fs, resolved, rec)
        scanB == collectImages_B(made.fs, resolved, rec, {})
        found == IF rev = "A" THEN scanA ELSE scanB.files
        dirs == IF rev = "A" THEN <<>> ELSE scanB.directories
    IN IF ~made.ok
       THEN [fs |-> tree, b |-> [b EXCEPT !.pc = "threw"]]
       ELSE [fs |-> made.fs,
             b |-> [b EXCEPT !.i = @ + 1,
                             !.fileSet = UnionInto(@, found),
                             !.dirSet = SetAddAll(@, dirs),
                             !.last = [dir |-> resolved, files |-> found, directories |-> dirs]]]

NoScan == [dir |-> <<>>, files |-> <<>>, directories |-> <<>>]

NewBuild == [i |-> 1, fileSet |-> <<>>, dirSet |-> <<>>, last |-> NoScan, pc |-> "loop"]

\* a tree: the paths that exist, each with its type, and the directories that
\* cannot be read
TreeOf(S, unread) == [nodes |-> S, unreadable |-> unread]

BaseTree == {<< <<"/">>, "dir" >>, << RootDir, "dir" >>}

(***************************************************************************)
(* pickRandom                                                              *)
(***************************************************************************)
MaxItems == 3
MaxPickCount == 4

ItemPool == 1..MaxItems

\* the loop condition: chosen.length < count && used.size < items.length
\* a loop that stops one element short
LoopCondStopsShort(st) ==
    /\ Num(Len(st.chosen) + 1) < st.count
    /\ Cardinality(st.used) < Len(st.items)

LoopCond(st) ==
    /\ Num(Len(st.chosen)) < st.count
    /\ Cardinality(st.used) < Len(st.items)

\* a loop body that forgets the `used` test
LoopBodyNoUsedTest(st, index) ==
    [st EXCEPT !.used = @ \cup {index},
               !.chosen = Append(@, st.items[index + 1])]

\* one iteration with randomInt(items.length) = index
LoopBody(st, index) ==
    IF index \in st.used
    THEN st
    ELSE [st EXCEPT !.used = @ \cup {index},
                    !.chosen = Append(@, st.items[index + 1])]

\* items.length <= count
EarlyReturn(items, count) == Num(Len(items)) <= count

RECURSIVE PickFrom(_)
\* every array the loop can return from the frame st (a draw of a used index
\* changes nothing and is drawn again)
PickFrom(st) ==
    IF ~LoopCond(st) THEN {st.chosen}
    ELSE UNION {PickFrom(LoopBody(st, index)) : index \in (0..(Len(st.items) - 1)) \ st.used}

\* every array pickRandom(items, count) can return
pickRandom(items, count) ==
    IF EarlyReturn(items, count) THEN {items}
    ELSE PickFrom([items |-> items, count |-> count, chosen |-> <<>>, used |-> {}])

\* if (items.length <= count) return [...items]
PickEnter ==
    /\ pk.pc = "call"
    /\ pk' = IF EarlyReturn(pk.items, pk.count)
             THEN [pk EXCEPT !.chosen = pk.items, !.pc = "done"]
             ELSE [pk EXCEPT !.chosen = <<>>, !.used = {}, !.pc = "loop"]
    /\ UNCHANGED <<scanVars, sampleVars, mainVars>>

PickIter ==
    /\ pk.pc = "loop"
    /\ LoopCond(pk)
    /\ \E index \in 0..(Len(pk.items) - 1) : pk' = LoopBody(pk, index)
    /\ UNCHANGED <<scanVars, sampleVars, mainVars>>

PickReturn ==
    /\ pk.pc = "loop"
    /\ ~LoopCond(pk)
    /\ pk' = [pk EXCEPT !.pc = "done"]
    /\ UNCHANGED <<scanVars, sampleVars, mainVars>>

(***************************************************************************)
(* The command handler's count arithmetic.  An argument is absent, a       *)
(* number (fixed point, v / Scale), NaN or an infinity.                    *)
(***************************************************************************)
NoArg == [kind |-> "none", v |-> 0]
NumArg(v) == [kind |-> "num", v |-> v]

\* typeof countArg === 'number' && Number.isFinite(countArg) && countArg > 0
\*   ? countArg : config.defaultCount
RequestedCount_A(arg, defaultCount) ==
    IF arg.kind = "num" /\ arg.v > 0 THEN arg.v ELSE Num(defaultCount)

\* Number.parseInt(countArg, 10): the digits before the decimal point
parseInt(arg) ==
    IF arg.kind # "num" THEN [finite |-> FALSE, v |-> 0]
    ELSE IF arg.v >= 0 THEN [finite |-> TRUE, v |-> Num(arg.v \div Scale)]
    ELSE [finite |-> TRUE, v |-> 0 - Num((0 - arg.v) \div Scale)]

\* Number.isFinite(requestCount) && requestCount > 0 ? requestCount : defaultCount
RequestedCount_B(arg, defaultCount) ==
    LET requestCount == parseInt(arg)
    IN IF requestCount.finite /\ requestCount.v > 0 THEN requestCount.v ELSE Num(defaultCount)

\* a limit that ignores the command's own limit
LimitGlobalOnly(config, maxCount) == maxCount

\* commandConfig.limit ?? config.maxCount
LimitOf(config, maxCount) == IF config.limit.set THEN config.limit.v ELSE maxCount

\* Math.min(count, limit)
Capped(rev, arg, config, defaultCount, maxCount) ==
    Min(IF rev = "A" THEN RequestedCount_A(arg, defaultCount)
                         ELSE RequestedCount_B(arg, defaultCount),
        Num(LimitOf(config, maxCount)))

\* pickRandom(files, Math.min(capped, files.length))
Selections(rev, arg, config, defaultCount, maxCount, files) ==
    pickRandom(files, Min(Capped(rev, arg, config, defaultCount, maxCount), Num(Len(files))))

MaxLimit == 5
MaxDefault == 2
MaxArg == 3
BigArg == 10

Unset == [set |-> FALSE, v |-> 0]
SetTo(n) == [set |-> TRUE, v |-> n]

\* if (!files.length) { await session.send(apology); return }
SampleEmpty ==
    /\ smp.pc = "files"
    /\ smp.files = <<>>
    /\ smp' = [smp EXCEPT !.pc = "done", !.reply = "apology"]
    /\ UNCHANGED <<pickVars, scanVars, mainVars>>

\* const selected = pickRandom(files, Math.min(capped, files.length))
SampleSelect ==
    /\ smp.pc = "files"
    /\ smp.files # <<>>
    /\ \E sel \in Selections(smp.variant, smp.arg, smp.config, smp.defaultCount,
                             smp.maxCount, smp.files) :
          smp' = [smp EXCEPT !.pc = "send", !.selected = sel]
    /\ UNCHANGED <<pickVars, scanVars, mainVars>>

\* the send loop: every message is sent, or one send throws and the error
\* message is sent in its place
SampleSend ==
    /\ smp.pc = "send"
    /\ \/ smp' = [smp EXCEPT !.pc = "done", !.delivered = Len(smp.selected), !.reply = "images"]
       \/ \E k \in 1..Len(smp.selected) :
            smp' = [smp EXCEPT !.pc = "done", !.delivered = k - 1, !.reply = "error"]
    /\ UNCHANGED <<pickVars, scanVars, mainVars>>

\* one turn of the loop over config.paths; a failed mkdir ends the call
ScanTurn ==
    /\ sc.b.pc = "loop"
    /\ sc.b.i <= Len(sc.config.paths)
    /\ LET t == BuildTurn(sc.variant, sc.fs, sc.config, sc.b)
       IN sc' = [sc EXCEPT !.fs = t.fs, !.b = t.b]
    /\ UNCHANGED <<pickVars, sampleVars, mainVars>>

\* return [...fileSet]
ScanReturn ==
    /\ sc.b.pc = "loop"
    /\ sc.b.i > Len(sc.config.paths)
    /\ sc' = [sc EXCEPT !.b.pc = "done"]
    /\ UNCHANGED <<pickVars, sampleVars, mainVars>>

(***************************************************************************)
(* apply(): the plugin at run time.  An action is one turn of the event    *)
(* loop: a callback with every continuation that runs before the loop      *)
(* takes the next event, or one answer of the operating system (mkdir,     *)
(* readdir) to a call in flight.                                           *)
(***************************************************************************)
\* the quiet period of the debounce, 200 ms, in ticks of 100 ms
QuietTicks == 2
\* Schema defaults of defaultCount and maxCount
DefaultCount == 1
MaxCount == 5

MaxRefreshes == 3

CommandNames == <<"cats", "dogs">>

\* Object.entries(config.commands), in order
CmdOrder == SelectSeq(CommandNames, LAMBDA c : c \in DOMAIN cfg)

CmdIndex(c) == CHOOSE i \in 1..Len(CommandNames) : CommandNames[i] = c

Absent == [present |-> FALSE, files |-> <<>>, watchers |-> {}, orig |-> FALSE]

\* { files: [], watchers: [] }, the object apply() puts in the Map
FreshState == [present |-> TRUE, files |-> <<>>, watchers |-> {}, orig |-> TRUE]

NoHandle == [cmd |-> "", dir |-> <<>>, gen |-> 0, k |-> 0]

Handle(c, dir, gen, k) == [cmd |-> c, dir |-> dir, gen |-> gen, k |-> k]

IdleHandler ==
    [pc |-> "idle", cmd |-> "", arg |-> NoArg, rid |-> 0, outcome |-> "none",
     files |-> <<>>, selected |-> <<>>]

\* fs.watch(dir) opens: the directory is there and may be read
WatchOk(tree, dir) == KindAt(tree, dir) # "none" /\ Real(dir) \notin tree.unreadable

Parent(p) == Prefix(p, Len(p) - 1)

\* the directories in which an entry appeared, vanished or changed its type
ChangedDirs(t1, t2) ==
    {Parent(x[1]) : x \in (t1.nodes \ t2.nodes) \cup (t2.nodes \ t1.nodes)}

\* the debounce closures whose watchers see a change in one of dirs
Affected(dirs) == {<<h.cmd, h.gen>> : h \in {x \in live : Real(x.dir) \in dirs}}

\* debounce: clearTimeout(timer); timer = setTimeout(fn, 200)
Debounce(ts, aff) ==
    {t \in ts : <<t.cmd, t.gen>> \notin aff}
      \cup {[cmd |-> a[1], gen |-> a[2], left |-> QuietTicks] : a \in aff}

HistAfterEvents(h, aff) ==
    [h EXCEPT !.since = [c \in DOMAIN @ |-> IF \E a \in aff : a[1] = c THEN 0 ELSE @[c]],
              !.burst = [c \in DOMAIN @ |-> IF \E a \in aff : a[1] = c THEN TRUE ELSE @[c]]]

\* the timers phase of the event loop comes before the poll phase: a timer
\* that is due runs before the next answer or event of the operating system
NoTimerDue == \A t \in timers : t.left > 0

\* the names of the model that carry one of the seven extensions, in any case
ImageNames == {"a.png", "X.JPG", "c.jpg", "d.Jpeg", "e.gif", "f.bmp", "h.webp", "i.avif", "m.txt.png"}

LastName(p) == p[Len(p)]

\* every directory from d down to the parent of p is a readable real directory
ReadableChain(tree, d, p) ==
    \A n \in Len(d)..(Len(p) - 1) :
        KindAt(tree, Prefix(p, n)) = "dir" /\ Prefix(p, n) \notin tree.unreadable

MatchingFilesUnder(tree, d) ==
    {p \in {x[1] : x \in {y \in tree.nodes : y[2] = "file"}} :
        /\ IsUnder(p, d)
        /\ LastName(p) \in ImageNames
        /\ ReadableChain(tree, d, p)}

\* a call whose build adds to the list of the state instead of a Set of its own
NewRefreshOnOldList(id, c, origin) ==
    [id |-> id, cmd |-> c, origin |-> origin,
     b |-> [NewBuild EXCEPT !.fileSet = commandStates[c].files],
     visited |-> <<>>, ondisk |-> {}]

\* a call of refreshCommand; visited and ondisk remember what its scans went
\* through: the directories read, and the matching files that were on disk
NewRefresh(id, c, origin) ==
    [id |-> id, cmd |-> c, origin |-> origin, b |-> NewBuild, visited |-> <<>>, ondisk |-> {}]

\* the directories the walk of collectImages comes to (the same walk in both
\* revisions; only revision B returns them)
VisitedDirs(tree, dir, recursive) == collectImages_B(tree, dir, recursive, {}).directories

\* a refreshCommand call may start: the calls the ready hook still owes are kept
CanStart == nextId + Len(ready.left) <= MaxRefreshes

\* a build that returns after its first turn
BuildDoneEarly(config, b) == b.i > 1

\* buildCommandCache has gone through config.paths
BuildDone(config, b) == b.i > Len(config.paths)

\* the handler from `const files = ...` on: the apology, or the selection
Continue(h, entries) ==
    LET st == entries[h.cmd]
        files == IF st.present THEN st.files ELSE <<>>
    IN IF files = <<>>
       THEN {[h EXCEPT !.pc = "done", !.outcome = "apology", !.files = files]}
       ELSE {[h EXCEPT !.pc = "done", !.outcome = "images", !.files = files, !.selected = sel] :
               sel \in Selections(variant, h.arg, cfg[h.cmd], DefaultCount, MaxCount, files)}

\* the handler when the refresh it awaits settles; ok: the refresh resolved
HandlerAfter(r, ok, entries) ==
    IF handler.pc = "await" /\ handler.rid = r.id
    THEN IF ok THEN Continue(handler, entries)
         ELSE {[handler EXCEPT !.pc = "done", !.outcome = "threw"]}
    ELSE {handler}

\* revision B's refreshAll: the loop awaits one command's refresh, then starts
\* the next
Chain(r) ==
    IF variant = "B" /\ r.origin = "ready" /\ ready.left # <<>>
    THEN {NewRefresh(nextId, Head(ready.left), "ready")}
    ELSE {}

ReadyAfter(r) ==
    IF variant = "B" /\ r.origin = "ready"
    THEN IF ready.left # <<>> THEN [ready EXCEPT !.left = Tail(@)]
         ELSE [st |-> "done", left |-> <<>>]
    ELSE ready

\* the handles whose close may throw: none, or one of hs while the budget lasts
CloseChoices(hs) == {NoHandle} \cup (IF budget.closeFail > 0 THEN hs ELSE {})

CloseSpent(bad) == IF bad = NoHandle THEN budget ELSE [budget EXCEPT !.closeFail = @ - 1]

(***************************************************************************)
(* Revision A, registerWatchers: one turn of its loop.  mkdir answers,     *)
(* watch() opens the handle at once; after the last turn the .then         *)
(* callback stores the handles in the state object apply() created.        *)
(***************************************************************************)
RegTurn(c) ==
    /\ variant = "A"
    /\ reg[c].pc = "loop"
    /\ NoTimerDue
    /\ LET i == reg[c].i
           resolved == resolveGalleryPath(RootDir, cfg[c].paths[i])
           made == ensureDirectory(fs, resolved)
           opened == IF made.ok /\ WatchOk(made.fs, resolved)
                     THEN {Handle(c, resolved, 0, i)} ELSE {}
           watchers == reg[c].watchers \cup opened
           last == i = Len(cfg[c].paths)
           aff == Affected(ChangedDirs(fs, made.fs))
       IN /\ fs' = made.fs
          /\ timers' = Debounce(timers, aff)
          /\ hist' = HistAfterEvents(hist, aff)
          /\ live' = live \cup opened
          /\ reg' = [reg EXCEPT ![c] = [i |-> i + 1, watchers |-> watchers,
                                        pc |-> IF last THEN "done" ELSE "loop"]]
          /\ commandStates' =
               IF last /\ commandStates[c].present /\ commandStates[c].orig
               THEN [commandStates EXCEPT ![c].watchers = watchers]
               ELSE commandStates
    /\ UNCHANGED <<variant, cfg, refreshes, nextId, ready, disposed, handler, budget>>
    /\ UNCHANGED <<pickVars, scanVars, sampleVars>>

\* a refreshCommand that publishes what its build had collected when it failed
AfterFailureKeepsPartial(states, r) == [states EXCEPT ![r.cmd].files = r.b.fileSet]

\* refreshCommand when buildCommandCache rejects: the await throws and no
\* statement after it runs; the Map is what it was
AfterFailure(states, r) == states

(***************************************************************************)
(* refreshCommand: one turn of buildCommandCache's loop.  A mkdir that     *)
(* fails rejects the call; nothing is published.                           *)
(***************************************************************************)
RefreshTurn(r) ==
    /\ r \in refreshes
    /\ ~BuildDone(cfg[r.cmd], r.b)
    /\ NoTimerDue
    /\ LET t == BuildTurn(variant, fs, cfg[r.cmd], r.b)
           aff == Affected(ChangedDirs(fs, t.fs))
       IN /\ fs' = t.fs
          /\ timers' = Debounce(timers, aff)
          /\ hist' = HistAfterEvents(hist, aff)
          /\ IF t.b.pc = "threw"
             THEN /\ refreshes' = (refreshes \ {r}) \cup Chain(r)
                  /\ nextId' = nextId + Cardinality(Chain(r))
                  /\ ready' = ReadyAfter(r)
                  /\ commandStates' = AfterFailure(commandStates, r)
                  /\ handler' \in HandlerAfter(r, FALSE, commandStates')
             ELSE /\ commandStates' = commandStates
                  /\ refreshes' = (refreshes \ {r}) \cup
                        {[r EXCEPT !.b = t.b,
                                   !.visited = SetAddAll(@, VisitedDirs(t.fs, t.b.last.dir,
                                                                        RecursiveOf(cfg[r.cmd]))),
                                   !.ondisk = @ \cup MatchingFilesUnder(t.fs, Real(t.b.last.dir))]}
                  /\ UNCHANGED <<nextId, ready, handler>>
    /\ UNCHANGED <<variant, cfg, reg, live, disposed, budget>>
    /\ UNCHANGED <<pickVars, scanVars, sampleVars>>

\* the state refreshCommand writes to: the Map's, or a new one
StateFor(c) ==
    IF commandStates[c].present THEN commandStates[c]
    ELSE [present |-> TRUE, files |-> <<>>, watchers |-> {}, orig |-> FALSE]

Published(h, r) ==
    [h EXCEPT !.pub[r.cmd] = [files |-> r.b.fileSet,
                              whole |-> r.b.i > Len(cfg[r.cmd].paths),
                              any |-> TRUE,
                              dirs |-> r.visited,
                              ondisk |-> r.ondisk,
                              id |-> r.id,
                              newest |-> IF r.id > @.newest THEN r.id ELSE @.newest]]

(***************************************************************************)
(* refreshCommand, revision A, after the await: the list is published.     *)
(***************************************************************************)
RefreshComplete_A(r) ==
    /\ variant = "A"
    /\ r \in refreshes
    /\ BuildDone(cfg[r.cmd], r.b)
    /\ LET entries == [commandStates EXCEPT ![r.cmd] = [StateFor(r.cmd) EXCEPT !.files = r.b.fileSet]]
       IN /\ commandStates' = entries
          /\ handler' \in HandlerAfter(r, TRUE, entries)
    /\ refreshes' = refreshes \ {r}
    /\ hist' = Published(hist, r)
    /\ UNCHANGED <<variant, cfg, fs, nextId, reg, live, timers, ready, disposed, budget>>
    /\ UNCHANGED <<pickVars, scanVars, sampleVars>>

\* registerWatchers(directories, refresh), revision B: a handle for every
\* directory whose watch opens, all on one new debounce
Registered_B(c, dirs, gen) ==
    {Handle(c, dirs[k], gen, k) : k \in {j \in 1..Len(dirs) : WatchOk(fs, dirs[j])}}

(***************************************************************************)
(* refreshCommand, revision B, after the await: the list is published,     *)
(* the state's watchers are closed and new ones registered.  A close that  *)
(* throws rejects the call after the list was published.                   *)
(***************************************************************************)
RefreshComplete_B(r) ==
    /\ variant = "B"
    /\ r \in refreshes
    /\ BuildDone(cfg[r.cmd], r.b)
    /\ LET st == [StateFor(r.cmd) EXCEPT !.files = r.b.fileSet]
       IN \E bad \in CloseChoices(st.watchers) :
            LET ok == bad = NoHandle
                fresh == Registered_B(r.cmd, r.b.dirSet, r.id)
                entries == [commandStates EXCEPT ![r.cmd] =
                              IF ok THEN [st EXCEPT !.watchers = fresh] ELSE st]
            IN /\ commandStates' = entries
               /\ live' = IF ok THEN (live \ st.watchers) \cup fresh
                          ELSE live \ {h \in st.watchers : h.k < bad.k}
               /\ budget' = CloseSpent(bad)
               /\ handler' \in HandlerAfter(r, ok, entries)
    /\ refreshes' = (refreshes \ {r}) \cup Chain(r)
    /\ nextId' = nextId + Cardinality(Chain(r))
    /\ ready' = ReadyAfter(r)
    /\ hist' = Published(hist, r)
    /\ UNCHANGED <<variant, cfg, fs, reg, timers, disposed>>
    /\ UNCHANGED <<pickVars, scanVars, sampleVars>>

(***************************************************************************)
(* The ready hook: ensureDirectory(rootDir), then refreshAll.  Revision A  *)
(* starts every command's refresh at once (Promise.all); revision B starts *)
(* the first and goes on when it has settled.                              *)
(***************************************************************************)
Ready ==
    /\ ready.st = "pending"
    /\ disposed = "no"
    /\ nextId + Len(CmdOrder) - 1 <= MaxRefreshes
    /\ IF variant = "A"
       THEN /\ refreshes' = refreshes \cup
                  {NewRefresh(nextId + i - 1, CmdOrder[i], "ready") : i \in 1..Len(CmdOrder)}
            /\ nextId' = nextId + Len(CmdOrder)
            /\ ready' = [st |-> "done", left |-> <<>>]
       ELSE /\ refreshes' = refreshes \cup {NewRefresh(nextId, Head(CmdOrder), "ready")}
            /\ nextId' = nextId + 1
            /\ ready' = [st |-> "running", left |-> Tail(CmdOrder)]
    /\ UNCHANGED <<variant, cfg, fs, commandStates, reg, live, timers, disposed, handler,
                   budget, hist>>
    /\ UNCHANGED <<pickVars, scanVars, sampleVars>>

(***************************************************************************)
(* Time: one tick passes.  A timer that is due fires before time goes on.  *)
(***************************************************************************)
Tick ==
    /\ timers # {}
    /\ NoTimerDue
    /\ timers' = {[t EXCEPT !.left = @ - 1] : t \in timers}
    /\ hist' = [hist EXCEPT !.since = [c \in DOMAIN @ |-> Min(@[c] + 1, QuietTicks)]]
    /\ UNCHANGED <<variant, cfg, fs, commandStates, refreshes, nextId, reg, live, ready,
                   disposed, handler, budget>>
    /\ UNCHANGED <<pickVars, scanVars, sampleVars>>

(***************************************************************************)
(* A debounce timer fires: the trigger calls refreshCommand.               *)
(***************************************************************************)
TimerFire(t) ==
    /\ t \in timers
    /\ t.left = 0
    /\ CanStart
    /\ timers' = timers \ {t}
    /\ refreshes' = refreshes \cup {NewRefresh(nextId, t.cmd, "watch")}
    /\ nextId' = nextId + 1
    /\ hist' = [hist EXCEPT !.early = @ \/ hist.since[t.cmd] < QuietTicks,
                            !.dup = @ \/ ~hist.burst[t.cmd],
                            !.burst[t.cmd] = FALSE]
    /\ UNCHANGED <<variant, cfg, fs, commandStates, reg, live, ready, disposed, handler,
                   budget>>
    /\ UNCHANGED <<pickVars, scanVars, sampleVars>>

\* the files and directories the environment adds or removes
NewFiles == {Append(Cats, "a.png"), Append(Deep, "e.gif")}

NewDirs == {Deep}

\* the tree changes to tree2: the watchers of the changed directories are told
FsChangeTo(tree2) ==
    /\ budget.fs > 0
    /\ NoTimerDue
    /\ budget' = [budget EXCEPT !.fs = @ - 1]
    /\ fs' = tree2
    /\ LET aff == Affected(ChangedDirs(fs, tree2))
       IN /\ timers' = Debounce(timers, aff)
          /\ hist' = HistAfterEvents(hist, aff)
    /\ UNCHANGED <<variant, cfg, commandStates, refreshes, nextId, reg, live, ready,
                   disposed, handler>>
    /\ UNCHANGED <<pickVars, scanVars, sampleVars>>

\* somebody puts a file into a directory of the gallery
AddFile ==
    \E p \in NewFiles :
        /\ KindAt(fs, p) = "none"
        /\ KindAt(fs, Parent(p)) = "dir"
        /\ FsChangeTo([fs EXCEPT !.nodes = @ \cup {<<p, "file">>}])

\* somebody removes a file
RemoveFile ==
    \E p \in NewFiles :
        /\ KindAt(fs, p) = "file"
        /\ FsChangeTo([fs EXCEPT !.nodes = @ \ {<<p, "file">>}])

\* somebody creates a subdirectory
MakeDir ==
    \E d \in NewDirs :
        /\ KindAt(fs, d) = "none"
        /\ KindAt(fs, Parent(d)) = "dir"
        /\ FsChangeTo([fs EXCEPT !.nodes = @ \cup {<<d, "dir">>}])

(***************************************************************************)
(* The command handler is called.  With no state or an empty list it       *)
(* awaits a refresh; otherwise it goes on at once.                         *)
(***************************************************************************)
\* an action that refreshes before every answer
MustRefreshAlways(st) == TRUE

\* if (!state || !state.files.length) await refreshCommand(...)
MustRefresh(st) == ~st.present \/ st.files = <<>>

Invoke(c, arg) ==
    /\ disposed = "no"
    /\ handler.pc = "idle"
    /\ budget.invoke > 0
    /\ budget' = [budget EXCEPT !.invoke = @ - 1]
    /\ LET h == [IdleHandler EXCEPT !.cmd = c, !.arg = arg]
       IN IF MustRefresh(commandStates[c])
          THEN /\ CanStart
               /\ refreshes' = refreshes \cup {NewRefresh(nextId, c, "invoke")}
               /\ nextId' = nextId + 1
               /\ handler' = [h EXCEPT !.pc = "await", !.rid = nextId]
          ELSE /\ handler' \in Continue(h, commandStates)
               /\ UNCHANGED <<refreshes, nextId>>
    /\ UNCHANGED <<variant, cfg, fs, commandStates, reg, live, timers, ready, disposed, hist>>
    /\ UNCHANGED <<pickVars, scanVars, sampleVars>>

\* the handler has returned or thrown; the next call may come
HandlerReturn ==
    /\ handler.pc = "done"
    /\ handler' = IdleHandler
    /\ UNCHANGED <<variant, cfg, fs, commandStates, refreshes, nextId, reg, live, timers,
                   ready, disposed, budget, hist>>
    /\ UNCHANGED <<pickVars, scanVars, sampleVars>>

\* every handle the Map's states hold
Held == UNION {commandStates[c].watchers : c \in DOMAIN commandStates}

\* the place of a handle in the dispose hook's loops
Rank(h) == CmdIndex(h.cmd) * 100 + h.k

(***************************************************************************)
(* The dispose hook, revision A: disposeWatchers closes every handle of    *)
(* every state, a close that throws is logged; the Map is cleared.         *)
(***************************************************************************)
Dispose_A ==
    /\ variant = "A"
    /\ disposed = "no"
    /\ \E bad \in CloseChoices(Held) :
         /\ live' = live \ (Held \ {bad})
         /\ budget' = CloseSpent(bad)
    /\ commandStates' = [c \in DOMAIN commandStates |-> Absent]
    /\ disposed' = "done"
    /\ hist' = [hist EXCEPT !.held = Held, !.attempted = Held]
    /\ UNCHANGED <<variant, cfg, fs, refreshes, nextId, reg, timers, ready, handler>>
    /\ UNCHANGED <<pickVars, scanVars, sampleVars>>

(***************************************************************************)
(* The dispose hook, revision B: watcher.close() in two plain loops; a     *)
(* close that throws ends the hook, the Map is not cleared.                *)
(***************************************************************************)
Dispose_B ==
    /\ variant = "B"
    /\ disposed = "no"
    /\ \E bad \in CloseChoices(Held) :
         LET before == {h \in Held : Rank(h) < Rank(bad)}
         IN IF bad = NoHandle
            THEN /\ live' = live \ Held
                 /\ commandStates' = [c \in DOMAIN commandStates |-> Absent]
                 /\ disposed' = "done"
                 /\ hist' = [hist EXCEPT !.held = Held, !.attempted = Held]
                 /\ UNCHANGED budget
            ELSE /\ live' = live \ before
                 /\ commandStates' = commandStates
                 /\ disposed' = "threw"
                 /\ hist' = [hist EXCEPT !.held = Held, !.attempted = before \cup {bad}]
                 /\ budget' = CloseSpent(bad)
    /\ UNCHANGED <<variant, cfg, fs, refreshes, nextId, reg, timers, ready, handler>>
    /\ UNCHANGED <<pickVars, scanVars, sampleVars>>

(***************************************************************************)
(* Specifications                                                          *)
(***************************************************************************)

PickIdle == pk = [items |-> <<>>, count |-> 0, chosen |-> <<>>, used |-> {}, pc |-> "idle"]

ScanIdle ==
    sc = [variant |-> "A", config |-> [paths |-> <<>>, recursive |-> "unset"],
          fs |-> TreeOf(BaseTree, {}), b |-> [NewBuild EXCEPT !.pc = "idle"]]

SampleIdle ==
    smp = [variant |-> "A", arg |-> NoArg, defaultCount |-> 0, maxCount |-> 0,
           config |-> [limit |-> Unset], files |-> <<>>, pc |-> "idle",
           selected |-> <<>>, delivered |-> 0, reply |-> "none"]

MainIdle ==
    /\ variant = "A"
    /\ cfg = <<>>
    /\ fs = TreeOf(BaseTree, {})
    /\ commandStates = <<>>
    /\ refreshes = {}
    /\ nextId = 1
    /\ reg = <<>>
    /\ live = {}
    /\ timers = {}
    /\ ready = [st |-> "idle", left |-> <<>>]
    /\ disposed = "idle"
    /\ handler = IdleHandler
    /\ budget = [fs |-> 0, invoke |-> 0, closeFail |-> 0]
    /\ hist = [since |-> <<>>, burst |-> <<>>, early |-> FALSE, dup |-> FALSE,
               pub |-> <<>>, held |-> {}, attempted |-> {}]

\* the state when apply() has returned.  Revision A has created each
\* command's state and called registerWatchers; revision B has created the
\* state and called refresh().
InitMain(configs, trees, budgets) ==
    /\ variant \in Variants
    /\ cfg \in configs
    /\ fs \in trees
    /\ commandStates = [c \in DOMAIN cfg |-> FreshState]
    /\ refreshes = IF variant = "A" THEN {}
                   ELSE {NewRefresh(CmdIndex(c), c, "apply") : c \in DOMAIN cfg}
    /\ nextId = IF variant = "A" THEN 1 ELSE Cardinality(DOMAIN cfg) + 1
    /\ reg = [c \in DOMAIN cfg |->
                IF variant = "A" THEN [i |-> 1, watchers |-> {}, pc |-> "loop"]
                ELSE [i |-> 1, watchers |-> {}, pc |-> "none"]]
    /\ live = {}
    /\ timers = {}
    /\ ready = [st |-> "pending", left |-> <<>>]
    /\ disposed = "no"
    /\ handler = IdleHandler
    /\ budget \in budgets
    /\ hist = [since |-> [c \in DOMAIN cfg |-> QuietTicks],
               burst |-> [c \in DOMAIN cfg |-> FALSE],
               early |-> FALSE, dup |-> FALSE,
               pub |-> [c \in DOMAIN cfg |->
                          [files |-> <<>>, whole |-> TRUE, any |-> FALSE, dirs |-> <<>>,
                           ondisk |-> {}, id |-> 0, newest |-> 0]],
               held |-> {}, attempted |-> {}]

MainArgs == {NoArg}

Next ==
    \/ \E c \in DOMAIN cfg : RegTurn(c)
    \/ \E r \in refreshes : RefreshTurn(r)
    \/ \E r \in refreshes : RefreshComplete_A(r)
    \/ \E r \in refreshes : RefreshComplete_B(r)
    \/ Ready
    \/ Tick
    \/ \E t \in timers : TimerFire(t)
    \/ AddFile
    \/ RemoveFile
    \/ MakeDir
    \/ \E c \in DOMAIN cfg, arg \in MainArgs : Invoke(c, arg)
    \/ HandlerReturn
    \/ Dispose_A
    \/ Dispose_B

\* one command over two overlapping galleries, cats and cats/more
CfgOne ==
    [c \in {"cats"} |-> [paths |-> <<LocCats, LocMore>>, recursive |-> "unset", limit |-> Unset]]

\* the trees at start: a gallery with one image, no gallery yet, and a file
\* in the place of cats/more
StartTrees ==
    { TreeOf(BaseTree \cup {<<Cats, "dir">>, <<Append(Cats, "a.png"), "file">>}, {}),
      TreeOf(BaseTree, {}),
      TreeOf(BaseTree \cup {<<Cats, "dir">>, <<Append(Cats, "a.png"), "file">>,
                            <<More, "file">>}, {}) }

MaxFsChanges == 2
MaxInvokes == 2
MaxCloseFailures == 1

\* what the environment does in a run: it changes the tree ...
ChangeBudgets == {[fs |-> MaxFsChanges, invoke |-> 0, closeFail |-> 0]}

\* ... or it calls the command and lets a close throw
CallBudgets == {[fs |-> 0, invoke |-> MaxInvokes, closeFail |-> MaxCloseFailures]}

\* the changes start from a root without galleries, the calls from every tree
Init ==
    /\ PickIdle
    /\ ScanIdle
    /\ SampleIdle
    /\ \/ InitMain({CfgOne}, {TreeOf(BaseTree, {})}, ChangeBudgets)
       \/ InitMain({CfgOne}, StartTrees, CallBudgets)

Spec == Init /\ [][Next]_vars

\* one command whose two locations name the same directory, the second one
\* absolute and not normalised
CfgDup ==
    [c \in {"cats"} |-> [paths |-> <<LocCats, LocCatsAbs>>, recursive |-> "unset", limit |-> Unset]]

\* a gallery with a subdirectory, with and without an image
DupTrees ==
    { TreeOf(BaseTree \cup {<<Cats, "dir">>, <<More, "dir">>}, {}),
      TreeOf(BaseTree \cup {<<Cats, "dir">>, <<More, "dir">>,
                            <<Append(Cats, "a.png"), "file">>}, {}) }

\* one change of the tree, or one call of the command
DupBudgets ==
    { [fs |-> 1, invoke |-> 0, closeFail |-> 0],
      [fs |-> 0, invoke |-> 1, closeFail |-> 0] }

InitDup ==
    /\ PickIdle
    /\ ScanIdle
    /\ SampleIdle
    /\ InitMain({CfgDup}, DupTrees, DupBudgets)

SpecDup == InitDup /\ [][Next]_vars

(***************************************************************************)
(* Two commands: "cats" with a location that cannot be created where a     *)
(* regular file has its name, "dogs" with one directory holding an image.  *)
(***************************************************************************)
CfgTwo ==
    [c \in {"cats", "dogs"} |->
        [paths |-> IF c = "cats" THEN <<LocCats, LocMore>> ELSE <<LocDogs>>,
         recursive |-> "unset", limit |-> Unset]]

\* cats/more is a regular file, or is still to be created
TwoTrees ==
    { TreeOf(BaseTree \cup {<<Cats, "dir">>, <<Append(Cats, "a.png"), "file">>,
                            <<More, "file">>,
                            <<Dogs, "dir">>, <<Append(Dogs, "c.jpg"), "file">>}, {}),
      TreeOf(BaseTree \cup {<<Cats, "dir">>,
                            <<Dogs, "dir">>, <<Append(Dogs, "c.jpg"), "file">>}, {}) }

InitTwo ==
    /\ PickIdle
    /\ ScanIdle
    /\ SampleIdle
    /\ InitMain({CfgTwo}, TwoTrees, DupBudgets)

SpecTwo == InitTwo /\ [][Next]_vars

DistinctLists ==
    {s \in UNION {[1..n -> ItemPool] : n \in 0..MaxItems} : IsInjective(s)}

\* the count arguments: absent, NaN, an infinity, and the numbers from -1 to
\* MaxArg in steps of 1 / Scale, and one large number
Args ==
    {NoArg, [kind |-> "nan", v |-> 0], [kind |-> "inf", v |-> 0]}
      \cup {NumArg(v) : v \in (0 - Scale)..Num(MaxArg)}
      \cup {NumArg(Num(BigArg))}

FileList(n) == [i \in 1..n |-> i]

InitSample ==
    /\ PickIdle
    /\ ScanIdle
    /\ MainIdle
    /\ smp \in {[variant |-> v, arg |-> a, defaultCount |-> d, maxCount |-> m,
                 config |-> [limit |-> l], files |-> FileList(n), pc |-> "files",
                 selected |-> <<>>, delivered |-> 0, reply |-> "none"] :
                  v \in Variants, a \in Args, d \in 0..MaxDefault, m \in 0..MaxLimit,
                  l \in {Unset} \cup {SetTo(k) : k \in 0..MaxLimit}, n \in 0..MaxItems}

NextSample ==
    \/ SampleEmpty
    \/ SampleSelect
    \/ SampleSend

SpecSample == InitSample /\ [][NextSample]_vars

InitPick ==
    /\ ScanIdle
    /\ SampleIdle
    /\ MainIdle
    /\ pk \in {[items |-> s, count |-> c, chosen |-> <<>>, used |-> {}, pc |-> "call"] :
              s \in DistinctLists, c \in 0..Num(MaxPickCount)}

NextPick ==
    \/ PickEnter
    \/ PickIter
    \/ PickReturn

SpecPick == InitPick /\ [][NextPick]_vars

\* one pass of the loop in which Math.random gives this index
Draw(index) ==
    /\ pk.pc = "loop"
    /\ LoopCond(pk)
    /\ index \in 0..(Len(pk.items) - 1)
    /\ pk' = LoopBody(pk, index)
    /\ UNCHANGED <<scanVars, sampleVars, mainVars>>

(***************************************************************************)
(* pickRandom with a fair random source: while the loop runs, every index  *)
(* is drawn again and again, so an index not yet used is drawn at some     *)
(* pass; the function's own statements follow one another.                 *)
(***************************************************************************)
SpecPickFair ==
    /\ InitPick
    /\ [][NextPick]_vars
    /\ WF_vars(PickEnter)
    /\ WF_vars(PickReturn)
    /\ \A index \in 0..(MaxItems - 1) : WF_vars(Draw(index))

(***************************************************************************)
(* The scanner over bounded directory trees                                *)
(***************************************************************************)
Opt(S) == {{}} \cup {{x} : x \in S}

FileNames == Names \ {"cats", "dogs", "more", "deep", "loop"}

\* trees that vary one entry of cats over every name and kind
ProbeTrees ==
    {TreeOf(BaseTree \cup {<<Cats, "dir">>, <<More, "dir">>, <<Append(More, "c.jpg"), "file">>}
              \cup {<<Append(Cats, n), k>>}, {}) :
        n \in FileNames, k \in {"file", "other", "dir", "link"}}

MoreShapes ==
    {{}} \cup {{<<More, "file">>}}
      \cup {{<<More, "dir">>} \cup c \cup d :
              c \in Opt({<<Append(More, "c.jpg"), "file">>}),
              d \in {{}, {<<Deep, "dir">>, <<Append(Deep, "e.gif"), "file">>,
                          <<Append(Deep, "loop"), "link">>}}}

DogsShapes ==
    {{}, {<<Dogs, "file">>}, {<<Dogs, "dir">>, <<Append(Dogs, "e.gif"), "file">>}}

\* trees that vary the structure: nesting, symlinks back to an ancestor,
\* unreadable directories, a file where a gallery should be
ShapeTrees ==
    {TreeOf(BaseTree \cup dg, {}) : dg \in DogsShapes}
      \cup {TreeOf(BaseTree \cup {<<Cats, "dir">>} \cup a \cup l \cup m \cup dg, u) :
              a \in Opt({<<Append(Cats, "a.png"), "file">>}),
              l \in Opt({<<Append(Cats, "loop"), "link">>}),
              m \in MoreShapes,
              dg \in DogsShapes,
              u \in {{}, {Cats}, {More}}}

ScanTrees == ProbeTrees \cup ShapeTrees

ScanPaths ==
    { <<LocCats>>, <<LocCats, LocMore>>, <<LocMore, LocCats>>, <<LocCats, LocCats>>,
      <<LocCats, LocCatsAbs>>, <<LocCats, LocDogs>>, <<LocDogs, LocCats>> }

InitScan ==
    /\ PickIdle
    /\ SampleIdle
    /\ MainIdle
    /\ sc \in {[variant |-> v, config |-> [paths |-> ps, recursive |-> r], fs |-> t, b |-> NewBuild] :
                 v \in Variants, ps \in ScanPaths, r \in {"true", "false", "unset"}, t \in ScanTrees}

NextScan ==
    \/ ScanTurn
    \/ ScanReturn

SpecScan == InitScan /\ [][NextScan]_vars

(***************************************************************************)
(* Properties                                                              *)
(***************************************************************************)

(***************************************************************************)
(* C1: for a list of L pairwise-distinct items and a whole count C >= 0,   *)
(* pickRandom returns exactly min(C, L) elements, each a member of items,  *)
(* none twice, and the whole list (as a set) when C >= L.                  *)
(***************************************************************************)
C1_SamplingLaw ==
    (pk.pc = "done" /\ IsWhole(pk.count)) =>
        LET L == Len(pk.items)
            C == pk.count \div Scale
        IN /\ Len(pk.chosen) = Min(C, L)
           /\ Range(pk.chosen) \subseteq Range(pk.items)
           /\ IsInjective(pk.chosen)
           /\ (C >= L => Range(pk.chosen) = Range(pk.items))

C1_Witness ==
    /\ pk.pc = "done"
    /\ pk.count = Num(2)
    /\ Len(pk.items) = 3
    /\ Len(pk.chosen) = 2
    /\ pk.chosen[1] > pk.chosen[2]

DirectChildren(S, d) == {p \in S : Len(p) = Len(d) + 1}

(***************************************************************************)
(* C5: the files a scan of a directory returns are exactly the regular     *)
(* files with one of the seven extensions (compared in lower case) in the  *)
(* directories the scan reads; other extensions, directories, non-regular  *)
(* entries and entries of unreadable directories are not returned.         *)
(***************************************************************************)
C5_FilterCorrectness ==
    sc.b.last # NoScan =>
        LET d == Real(sc.b.last.dir)
            all == MatchingFilesUnder(sc.fs, d)
        IN Range(sc.b.last.files) =
             IF RecursiveOf(sc.config) THEN all ELSE DirectChildren(all, d)

C5_Witness ==
    /\ sc.b.last # NoScan
    /\ KindAt(sc.fs, Append(Cats, "X.JPG")) = "file"
    /\ Append(Cats, "X.JPG") \in Range(sc.b.last.files)
    /\ Append(More, "c.jpg") \in Range(sc.b.last.files)

Occurrences(s, x) == Cardinality({i \in 1..Len(s) : s[i] = x})

(***************************************************************************)
(* C6: with recursive=false a scan returns only matching files that are    *)
(* direct children of the scanned directory; with recursive=true (or       *)
(* unset) it ends and returns every matching file at any depth exactly     *)
(* once, also in a tree that holds symlinks back to an ancestor.           *)
(***************************************************************************)
C6_RecursionToggle ==
    sc.b.last # NoScan =>
        LET d == Real(sc.b.last.dir)
            files == sc.b.last.files
            all == MatchingFilesUnder(sc.fs, d)
        IN IF sc.config.recursive = "false"
           THEN /\ \A f \in Range(files) : Len(f) = Len(d) + 1
                /\ \A p \in DirectChildren(all, d) : Occurrences(files, p) = 1
           ELSE \A p \in all : Occurrences(files, p) = 1

C6_Witness ==
    /\ sc.b.last # NoScan
    /\ sc.config.recursive = "true"
    /\ sc.b.last.dir = Cats
    /\ KindAt(sc.fs, Append(Cats, "loop")) = "link"
    /\ KindAt(sc.fs, Append(Deep, "loop")) = "link"
    /\ Occurrences(sc.b.last.files, Append(Deep, "e.gif")) = 1
    /\ Occurrences(sc.b.last.files, Append(Cats, "a.png")) = 1

\* the claim's numbers, in fixed point: the requested count, the limit and
\* the count of available files
ClaimRequested == IF smp.arg.kind = "num" /\ smp.arg.v > 0 THEN smp.arg.v ELSE Num(smp.defaultCount)

ClaimLimit == IF smp.config.limit.set THEN Num(smp.config.limit.v) ELSE Num(smp.maxCount)

ClaimMin == Min(Min(ClaimRequested, ClaimLimit), Num(Len(smp.files)))

WholeOrNoArg == smp.arg.kind # "num" \/ IsWhole(smp.arg.v)

C7_DedupUnion == sc.b.pc = "done" => IsInjective(sc.b.fileSet)

C7_Witness ==
    /\ sc.b.pc = "done"
    /\ sc.config.paths = <<LocCats, LocMore>>
    /\ sc.config.recursive # "false"
    /\ \E f \in Range(sc.b.fileSet) : IsUnder(f, More)
    /\ \E f \in Range(sc.b.fileSet) : Parent(f) = Cats

\* the list a reader of command c gets from the Map
Visible(c) == IF commandStates[c].present THEN commandStates[c].files ELSE <<>>

\* the list of c is the empty list of a state no refresh has written to, or
\* the list of the last refresh that published, which went through every
\* configured directory
VisibleWhole(c) ==
    IF hist.pub[c].any
    THEN hist.pub[c].whole /\ Visible(c) \in {hist.pub[c].files, <<>>}
    ELSE Visible(c) = <<>>

(***************************************************************************)
(* C3: under every interleaving of refreshes and invocations, the list in  *)
(* the Map is the whole list of one refresh (or empty before the first),   *)
(* and the list a handler reads is the list in the Map at that moment.     *)
(***************************************************************************)
C3_CacheAtomicity ==
    [][ \A c \in DOMAIN cfg :
          /\ VisibleWhole(c)'
          /\ (handler.pc # "done" /\ handler'.pc = "done" /\ handler'.cmd = c
                 /\ handler'.outcome # "threw")
               => handler'.files = Visible(c)' ]_vars

C3_Witness ==
    /\ handler.pc = "done"
    /\ handler.outcome = "images"
    /\ \E r \in refreshes :
         /\ r.cmd = handler.cmd
         /\ r.b.i > 1
         /\ r.b.i <= Len(cfg[r.cmd].paths)
         /\ r.b.fileSet # <<>>

(***************************************************************************)
(* C4: a watch-triggered refresh starts only when the quiet period has     *)
(* passed since the command's last change event, every burst of events     *)
(* triggers one refresh and no more, also with another refresh of the      *)
(* command in between the events.                                          *)
(***************************************************************************)
C4_DebounceCollapse ==
    /\ ~hist.early
    /\ ~hist.dup
    /\ \A c \in DOMAIN cfg : hist.burst[c] => \E t \in timers : t.cmd = c

(***************************************************************************)
(* C8: an invocation that finds the list empty after its refresh attempt   *)
(* sends the apology and no image, and does not throw, whether the refresh *)
(* found nothing or failed.                                                *)
(***************************************************************************)
C8_EmptyGallery ==
    (handler.pc = "done" /\ handler.files = <<>>) =>
        handler.outcome = "apology" /\ handler.selected = <<>>

\* nothing is pending: no call in flight, no timer, the hooks have run
Quiescent ==
    /\ disposed = "no"
    /\ ready.st = "done"
    /\ refreshes = {}
    /\ timers = {}
    /\ \A c \in DOMAIN cfg : reg[c].pc # "loop"

GalleryDirs(c) == {resolveGalleryPath(RootDir, cfg[c].paths[i]) : i \in 1..Len(cfg[c].paths)}

\* the matching files a scan of the command's directories would find now
GalleryFiles(c) == UNION {MatchingFilesUnder(fs, d) : d \in GalleryDirs(c)}

(***************************************************************************)
(* C9: a matching file that is added under the command's gallery, at any   *)
(* depth, when nothing is pending, makes the watch start the command's     *)
(* debounce: the refresh that puts the file into the published list.       *)
(***************************************************************************)
C9_EventualFreshness ==
    [][ \A c \in DOMAIN cfg :
          ( /\ Quiescent
            /\ \A d \in GalleryDirs(c) : KindAt(fs, d) = "dir"
            /\ GalleryFiles(c)' \ GalleryFiles(c) # {} )
          => \E t \in timers' : t.cmd = c ]_vars

(***************************************************************************)
(* C10: when the dispose hook returns, it has returned normally, close     *)
(* was attempted on every handle the commands held, and the Map is empty.  *)
(***************************************************************************)
C10_DisposeClosesAll ==
    [][ (disposed = "no" /\ disposed' # "no") =>
            /\ disposed' = "done"
            /\ hist'.attempted = hist'.held
            /\ \A c \in DOMAIN cfg : ~commandStates'[c].present ]_vars

(***************************************************************************)
(* C11: no directory is watched by two live handles of one command, also   *)
(* across repeated and overlapping refreshes and when two configured       *)
(* locations lead to the same directory.                                   *)
(***************************************************************************)
C11_NoDoubleWatch ==
    \A h1, h2 \in live :
        (h1.cmd = h2.cmd /\ Real(h1.dir) = Real(h2.dir)) => h1 = h2

\* a live handle of command c watches directory d
Watched(c, d) == \E h \in live : h.cmd = c /\ Real(h.dir) = Real(d)

(***************************************************************************)
(* C12: after a refresh of a command has completed and before dispose,     *)
(* every directory its scan visited, configured or nested, has a live      *)
(* watch handle of the command unless the watch cannot be opened on it     *)
(* (here: once the registration that apply() started has resolved).        *)
(***************************************************************************)
C12_WatchCoverage ==
    \A c \in DOMAIN cfg :
        (disposed = "no" /\ hist.pub[c].any /\ reg[c].pc # "loop") =>
            \A d \in Range(hist.pub[c].dirs) : WatchOk(fs, d) => Watched(c, d)

(***************************************************************************)
(* C13: when no refresh of a command is in flight any more, the list in    *)
(* the Map is the result of one of the refreshes that ran: that refresh    *)
(* went through every configured directory, and the list holds exactly     *)
(* the matching files its scans had on disk, none of another scan.         *)
(***************************************************************************)
C13_CompleteScan ==
    \A c \in DOMAIN cfg :
        ( /\ \A r \in refreshes : r.cmd # c
          /\ hist.pub[c].any
          /\ commandStates[c].present )
        => /\ commandStates[c].files = hist.pub[c].files
           /\ hist.pub[c].whole
           /\ Range(hist.pub[c].files) = hist.pub[c].ondisk

\* two refreshes overlapped, the one that started first has published last,
\* and its scan had found a file
C13_Witness ==
    /\ refreshes = {}
    /\ commandStates["cats"].present
    /\ hist.pub["cats"].id < hist.pub["cats"].newest
    /\ commandStates["cats"].files # <<>>

(***************************************************************************)
(* C14: of overlapping refreshes of a command, the one that started later  *)
(* wins: a refresh that started earlier never overwrites the list of a     *)
(* refresh that started after it, so the published list is always that of  *)
(* the latest-started refresh that has completed.                          *)
(***************************************************************************)
C14_SecondRefreshWins ==
    \A c \in DOMAIN cfg : hist.pub[c].any => hist.pub[c].id = hist.pub[c].newest

\* the call r of refreshCommand rejects in this step: it leaves before its
\* build has gone through the configured directories
Failed(r) ==
    /\ r \in refreshes
    /\ ~BuildDone(cfg[r.cmd], r.b)
    /\ \A x \in refreshes' : x.id # r.id

(***************************************************************************)
(* C15: when a refresh fails on creating one of the configured             *)
(* directories, the files it had collected from the directories before     *)
(* are in the command's list afterwards.                                   *)
(***************************************************************************)
C15_PartialFailure ==
    [][ \A r \in refreshes :
          Failed(r) => Range(r.b.fileSet) \subseteq Range(Visible(r.cmd))' ]_vars

\* the call r of refreshCommand is taken one turn further, its build not
\* yet through the configured directories
Advances(r) ==
    /\ r \in refreshes
    /\ ~BuildDone(cfg[r.cmd], r.b)
    /\ r \notin refreshes'

(***************************************************************************)
(* C20: a refresh that fails on creating a configured directory has        *)
(* changed nothing: none of its turns, the failing one included, touches   *)
(* the published list of its command, the live watch handles, or the       *)
(* state of any other command.                                             *)
(***************************************************************************)
C20_FailedRefreshChangesNothing ==
    [][ \A r \in refreshes :
          Advances(r) => /\ commandStates' = commandStates
                         /\ live' = live
                         /\ hist'.pub = hist.pub ]_vars

\* the refresh of "cats" that an invocation awaited has failed with an image
\* collected; "dogs" has its list published and its directory watched
C20_Witness ==
    /\ handler.pc = "done"
    /\ handler.cmd = "cats"
    /\ handler.outcome = "threw"
    /\ commandStates["cats"].files = <<>>
    /\ KindAt(fs, Append(Cats, "a.png")) = "file"
    /\ commandStates["dogs"].files # <<>>
    /\ \E h \in live : h.cmd = "dogs"

\* the directories the plugin takes from a build for watching: the configured
\* locations (src/src/index.ts), the directories the scans recorded
\* (src/unnamed/part_000)
WatchTargets(rev, config, b) ==
    IF rev = "A"
    THEN {Real(resolveGalleryPath(RootDir, config.paths[i])) : i \in 1..(b.i - 1)}
    ELSE {Real(x) : x \in Range(b.dirSet)}

\* the directories a scan of d comes to: d, and with recursion every
\* directory below it whose ancestors up to d can be read
Reached(tree, d, rec) ==
    {d} \cup IF rec
             THEN {p \in {x[1] : x \in {y \in tree.nodes : y[2] = "dir"}} :
                     IsUnder(p, d) /\ ReadableChain(tree, d, p)}
             ELSE {}

\* a build stops with an error only where a directory cannot be created
C16_NeverRaises ==
    sc.b.pc = "threw" =>
        ~MkdirOk(sc.fs, resolveGalleryPath(RootDir, sc.config.paths[sc.b.i]))

\* no file of a scan lies in or below a directory that cannot be read
C16_UnreadableGivesNothing ==
    sc.b.last # NoScan =>
        \A f \in Range(sc.b.last.files) : ReadableChain(sc.fs, Real(sc.b.last.dir), f)

\* the files of the readable directories are all returned, whatever else
\* cannot be read; the other configured locations keep theirs
C16_SiblingsReturned ==
    sc.b.last # NoScan =>
        LET d == Real(sc.b.last.dir)
            all == MatchingFilesUnder(sc.fs, d)
            want == IF RecursiveOf(sc.config) THEN all ELSE DirectChildren(all, d)
        IN /\ want \subseteq Range(sc.b.last.files)
           /\ Range(sc.b.last.files) \subseteq Range(sc.b.fileSet)

\* every directory the scan came to and could not read is one the plugin
\* will try to watch
C16_VisitedRecorded ==
    sc.b.last # NoScan =>
        \A p \in Reached(sc.fs, Real(sc.b.last.dir), RecursiveOf(sc.config)) :
            p \in sc.fs.unreadable => p \in WatchTargets(sc.variant, sc.config, sc.b)

(***************************************************************************)
(* C16: the scan never raises; a directory that cannot be read, configured *)
(* or nested, contributes no files; the files of the readable directories  *)
(* are still returned; and the unreadable directory is among the           *)
(* directories recorded for watching.                                      *)
(***************************************************************************)
C16_ScannerFailurePolicy ==
    /\ C16_NeverRaises
    /\ C16_UnreadableGivesNothing
    /\ C16_SiblingsReturned
    /\ C16_VisitedRecorded

(***************************************************************************)
(* C17: an invocation of a command starts a refresh exactly when the       *)
(* command has no state in the Map or its list is empty; one that finds a  *)
(* non-empty list takes its sample from that list, and starts no scan and  *)
(* touches neither the tree nor the watchers and timers.                   *)
(***************************************************************************)
C17_RefreshOnlyWhenEmpty ==
    [][ \A c \in DOMAIN cfg :
          (handler.pc = "idle" /\ handler'.pc # "idle" /\ handler'.cmd = c) =>
             /\ (\E r \in refreshes' \ refreshes : r.cmd = c /\ r.origin = "invoke")
                   <=> Visible(c) = <<>>
             /\ Visible(c) # <<>> =>
                   /\ refreshes' = refreshes
                   /\ fs' = fs
                   /\ live' = live
                   /\ timers' = timers
                   /\ commandStates' = commandStates
                   /\ handler'.pc = "done"
                   /\ handler'.files = Visible(c)
                   /\ Range(handler'.selected) \subseteq Range(Visible(c)) ]_vars

\* a request was answered with images from the list it found, no refresh
\* awaited
C17_Witness ==
    /\ handler.pc = "done"
    /\ handler.outcome = "images"
    /\ handler.rid = 0
    /\ handler.files # <<>>
    /\ handler.selected # <<>>

\* the loop runs for a whole count below the length of the list
InRejectionLoop ==
    /\ pk.pc = "loop"
    /\ IsWhole(pk.count)
    /\ pk.count < Num(Len(pk.items))

\* in the loop the chosen elements are as many as the used indices, and
\* distinct; the loop goes on with an unused index left, and stops only
\* with all the elements asked for
LoopSound ==
    InRejectionLoop =>
        /\ Len(pk.chosen) = Cardinality(pk.used)
        /\ IsInjective(pk.chosen)
        /\ LoopCond(pk) => \E index \in 0..(Len(pk.items) - 1) : index \notin pk.used
        /\ ~LoopCond(pk) => Num(Len(pk.chosen)) = pk.count

(***************************************************************************)
(* C18: with a fair random source, for a list of length L and a count C    *)
(* with 0 <= C < L the rejection loop of pickRandom comes to its exit with *)
(* exactly C elements of distinct indices; it never leaves with fewer and  *)
(* never runs with no unused index left.                                   *)
(***************************************************************************)
C18_SamplingTerminates ==
    /\ []LoopSound
    /\ InRejectionLoop ~>
          (/\ pk.pc = "done"
           /\ Num(Len(pk.chosen)) = pk.count
           /\ Cardinality(pk.used) = Len(pk.chosen)
           /\ IsInjective(pk.chosen))

\* the loop has ended with two of three elements, the indices 0 and 2
C18_Witness ==
    /\ pk.pc = "done"
    /\ pk.count = Num(2)
    /\ Len(pk.items) = MaxItems
    /\ pk.used = {0, 2}
    /\ Len(pk.chosen) = 2

(***************************************************************************)
(* C19: once the dispose hook has run, no watch handle of any command is   *)
(* live and the Map has no state, whatever was under way when it ran: a    *)
(* refresh, a registration of watchers, a debounce timer.                  *)
(***************************************************************************)
C19_NothingSurvivesDispose ==
    disposed = "done" =>
        /\ live = {}
        /\ \A c \in DOMAIN cfg : ~commandStates[c].present

====
